---- MODULE Spec2Model ----
(***************************************************************************)
(* Model of the rating service of src/trueskill_api_v3.py: the in-memory   *)
(* rating table TEAM_RATINGS, the rating environment env, the session      *)
(* context (LAST_EVENT_KEY, LAST_YEAR), the snapshot file at DATA_PATH and *)
(* the request handlers that read and write them.                          *)
(*                                                                         *)
(* Numbers are integers: a float of the program is modelled by an integer  *)
(* of the same magnitude (25/3 is 8), and JSON text is exact on them.      *)
(* Team keys are sequences of one-character strings, so that strip() and   *)
(* lower() are computed, character by character.                           *)
(***************************************************************************)
EXTENDS Integers, Sequences, FiniteSets, TLC

VARIABLES
    TEAM_RATINGS,    \* the dict of line 44: key |-> rating
    env,             \* the global trueskill.TrueSkill of line 43
    LAST_EVENT_KEY,  \* line 51
    LAST_YEAR,       \* line 52
    file,            \* the content of the file at DATA_PATH
    last,            \* the last request served: its input, the state before it, its response
    steps,           \* number of requests served so far
    job,             \* threaded server: the write request in progress
    seen             \* threaded server: what the read request of the last step observed

vars == <<TEAM_RATINGS, env, LAST_EVENT_KEY, LAST_YEAR, file, last, steps, job, seen>>

-----------------------------------------------------------------------------
(* Bounds of the model *)

MaxSteps == 2

-----------------------------------------------------------------------------
(* JSON values. A value is a record [t, v]: t is the JSON type, v the value *)
(* (a filler for null and for values whose content is never read).          *)

JNull == [t |-> "null", v |-> 0]
JNum(n) == [t |-> "num", v |-> n]
JBadStr == [t |-> "str", v |-> 0]          \* a string that is no number

KNull == [t |-> "null", v |-> <<>>]        \* a team_key that is null
KStr(s) == [t |-> "str", v |-> s]          \* a team_key that is the string s

ENull == [t |-> "null", v |-> ""]          \* a null event key
EStr(s) == [t |-> "str", v |-> s]

IsNone(j) == j.t = "null"

-----------------------------------------------------------------------------
(* str.strip() and str.lower() on sequences of characters *)

Lower(c) ==
    CASE c = "A" -> "a"
      [] c = "B" -> "b"
      [] c = "C" -> "c"
      [] OTHER -> c

IsSpace(c) == c = " "

RECURSIVE LStrip(_)
LStrip(s) == IF s # <<>> /\ IsSpace(Head(s)) THEN LStrip(Tail(s)) ELSE s

RECURSIVE RStrip(_)
RStrip(s) ==
    IF s # <<>> /\ IsSpace(s[Len(s)]) THEN RStrip(SubSeq(s, 1, Len(s) - 1)) ELSE s

Strip(s) == RStrip(LStrip(s))

LowerStr(s) == [i \in 1..Len(s) |-> Lower(s[i])]

\* str(team_key).strip().lower(), lines 58, 137 and 285
CanonKey(t) == LowerStr(Strip(t))

-----------------------------------------------------------------------------
(* dict operations *)

EmptyDict == <<>>

Put(d, k, x) == [y \in (DOMAIN d) \cup {k} |-> IF y = k THEN x ELSE d[y]]

-----------------------------------------------------------------------------
(* The trueskill package (not part of the repository): Rating, TrueSkill,   *)
(* TrueSkill.rate for two groups, as the handlers use them.                 *)

ISqrt(n) == CHOOSE r \in 0..n : r * r >= n /\ (r = 0 \/ (r - 1) * (r - 1) < n)

Abs(x) == IF x < 0 THEN -x ELSE x

\* Rating(mu, sigma): raises ValueError when sigma = 0; keeps pi = sigma^-2, so
\* that the sigma read back is the absolute value.
RatingRaises(mu, sigma) == sigma = 0

\* A rating that keeps sigma as it is given
RatingAsGiven(mu, sigma) == [mu |-> mu, sigma |-> sigma]

Rating(mu, sigma) == [mu |-> mu, sigma |-> Abs(sigma)]

TrueSkill(mu, sigma, beta, tau, draw_probability) ==
    [mu |-> mu, sigma |-> sigma, beta |-> beta, tau |-> tau,
     draw_probability |-> draw_probability]

RECURSIVE SumMu(_)
SumMu(g) == IF g = <<>> THEN 0 ELSE Head(g).mu + SumMu(Tail(g))

RECURSIVE SumVar(_, _)
SumVar(g, tau) ==
    IF g = <<>> THEN 0
    ELSE Head(g).sigma * Head(g).sigma + tau * tau + SumVar(Tail(g), tau)

\* The moment functions v and w, in tenths, at t = (mean difference) / c rounded
\* down: the win versions, and the draw versions for a positive draw margin.
VWin10(t) ==
    IF t <= -2 THEN 24 ELSE IF t = -1 THEN 15 ELSE IF t = 0 THEN 8
    ELSE IF t = 1 THEN 3 ELSE 1

WWin10(t) ==
    IF t <= -2 THEN 9 ELSE IF t = -1 THEN 8 ELSE IF t = 0 THEN 6
    ELSE IF t = 1 THEN 4 ELSE 1

VDraw10(t) == IF t > 2 THEN -20 ELSE IF t < -2 THEN 20 ELSE -10 * t

WDraw10(t) == 9

\* The draw versions when draw_probability is 0. The draw margin is then
\* ppf(0.5) * sqrt(size) * beta, and the ppf of the package's default backend
\* gives about 4e-8 for 0.5, not 0: the denominator cdf(a) - cdf(b) of v_draw
\* and w_draw is not 0 and rate() returns. For a mean difference d other than 0
\* the values are those of the limit of a vanishing margin, v = -d / c and
\* w = 1; for d = 0 the backend's erfc steps at 0 and w comes out as about -0.8.
VTie10(d, c) == IF d >= 0 THEN -((10 * d) \div c) ELSE ((-10) * d) \div c

WTie10(d) == IF d = 0 THEN -8 ELSE 10

\* rate() raises ValueError on an empty group.
RateRaises(e, g1, g2, ranks) ==
    \/ g1 = <<>>
    \/ g2 = <<>>

\* An update whose correction widens the belief instead of narrowing it
UpdatedWidening(r, e, c2, v10, w10, sign) ==
    LET s2 == r.sigma * r.sigma + e.tau * e.tau
        c == ISqrt(c2)
        dmu == (s2 * v10) \div (10 * c)
        nv == s2 + ((s2 * s2 * w10) \div (10 * c2))
    IN  [mu |-> r.mu + sign * dmu, sigma |-> ISqrt(nv)]

\* The new rating of one member: `sign` is +1 when v applies to its group as
\* computed (the group listed first in the comparison), -1 for the other group.
Updated(r, e, c2, v10, w10, sign) ==
    LET s2 == r.sigma * r.sigma + e.tau * e.tau
        c == ISqrt(c2)
        dmu == (s2 * v10) \div (10 * c)
        nv == s2 - ((s2 * s2 * w10) \div (10 * c2))
    IN  [mu |-> r.mu + sign * dmu, sigma |-> ISqrt(nv)]

\* env.rate([g1, g2], ranks=ranks) when it does not raise: <<new g1, new g2>>
Rate(e, g1, g2, ranks) ==
    LET n == Len(g1) + Len(g2)
        c2 == SumVar(g1, e.tau) + SumVar(g2, e.tau) + n * e.beta * e.beta
        c == ISqrt(c2)
        \* the group ranked first is the winner; a tie keeps the order given
        firstIs1 == ranks[1] <= ranks[2]
        d == IF firstIs1 THEN SumMu(g1) - SumMu(g2) ELSE SumMu(g2) - SumMu(g1)
        t == d \div c
        draw == ranks[1] = ranks[2]
        tie == draw /\ e.draw_probability = 0
        v10 == IF tie THEN VTie10(d, c) ELSE IF draw THEN VDraw10(t) ELSE VWin10(t)
        w10 == IF tie THEN WTie10(d) ELSE IF draw THEN WDraw10(t) ELSE WWin10(t)
        s1 == IF firstIs1 THEN 1 ELSE -1
    IN  << [i \in 1..Len(g1) |-> Updated(g1[i], e, c2, v10, w10, s1)],
           [i \in 1..Len(g2) |-> Updated(g2[i], e, c2, v10, w10, -s1)] >>

-----------------------------------------------------------------------------
(* Helpers of the service *)

DEFAULT_MU == 25
DEFAULT_SIGMA == 25 \div 3

\* get_team_rating without the test of line 59: the prior is stored anew
get_team_rating_anew(tr, team_key) ==
    Put(tr, CanonKey(team_key), Rating(DEFAULT_MU, DEFAULT_SIGMA))

\* get_team_rating, lines 56-61: the table after the call
get_team_rating(tr, team_key) ==
    LET k == CanonKey(team_key)
    IN  IF k \notin DOMAIN tr
        THEN Put(tr, k, Rating(DEFAULT_MU, DEFAULT_SIGMA))
        ELSE tr

RECURSIVE get_team_ratings(_, _)
get_team_ratings(tr, teams) ==
    IF teams = <<>> THEN tr
    ELSE get_team_ratings(get_team_rating(tr, Head(teams)), Tail(teams))

\* The loop of lines 230-233 when it moves a belief to the key as given: the
\* entry under the canonical key is deleted when the two differ
RECURSIVE store_new_ratings_move(_, _, _)
store_new_ratings_move(tr, teams, new_ratings) ==
    IF teams = <<>> \/ new_ratings = <<>> THEN tr
    ELSE LET t == Head(teams)
             put == Put(tr, t, Head(new_ratings))
             moved == IF CanonKey(t) = t THEN put
                      ELSE [k \in (DOMAIN put) \ {CanonKey(t)} |-> put[k]]
         IN  store_new_ratings_move(moved, Tail(teams), Tail(new_ratings))

\* for t, new_r in zip(teams, new_ratings): TEAM_RATINGS[t] = new_r
RECURSIVE store_new_ratings(_, _, _)
store_new_ratings(tr, teams, new_ratings) ==
    IF teams = <<>> \/ new_ratings = <<>> THEN tr
    ELSE store_new_ratings(Put(tr, Head(teams), Head(new_ratings)),
                           Tail(teams), Tail(new_ratings))

\* The ranks when equal scores count as a win of the first alliance
RanksOfDecisive(score1, score2) ==
    IF score1 >= score2 THEN <<0, 1>> ELSE <<1, 0>>

\* ranks of lines 221-226 and 261-266
RanksOf(score1, score2) ==
    IF score1 > score2 THEN <<0, 1>>
    ELSE IF score2 > score1 THEN <<1, 0>>
    ELSE <<0, 0>>

\* Lines 227-233 where the table is first cut down to the teams of the match
rate_and_store_only(tr, e, teams1, teams2, ranks) ==
    LET named == {teams1[i] : i \in 1..Len(teams1)} \cup {teams2[i] : i \in 1..Len(teams2)}
        keep == {k \in DOMAIN tr : \E t \in named : CanonKey(t) = CanonKey(k)}
        tr0 == [k \in keep |-> tr[k]]
        tr1 == get_team_ratings(get_team_ratings(tr0, teams1), teams2)
        ratings1 == [i \in 1..Len(teams1) |-> tr1[CanonKey(teams1[i])]]
        ratings2 == [i \in 1..Len(teams2) |-> tr1[CanonKey(teams2[i])]]
    IN  IF RateRaises(e, ratings1, ratings2, ranks)
        THEN [ok |-> FALSE, tr |-> tr1]
        ELSE LET new == Rate(e, ratings1, ratings2, ranks)
             IN  [ok |-> TRUE,
                  tr |-> store_new_ratings(store_new_ratings(tr1, teams1, new[1]),
                                           teams2, new[2])]

\* Lines 227-233 and 267-273: the ratings of both alliances are looked up (and
\* created), rated, and stored. [ok, tr]: ok is FALSE when rate() raised.
rate_and_store(tr, e, teams1, teams2, ranks) ==
    LET tr1 == get_team_ratings(get_team_ratings(tr, teams1), teams2)
        ratings1 == [i \in 1..Len(teams1) |-> tr1[CanonKey(teams1[i])]]
        ratings2 == [i \in 1..Len(teams2) |-> tr1[CanonKey(teams2[i])]]
    IN  IF RateRaises(e, ratings1, ratings2, ranks)
        THEN [ok |-> FALSE, tr |-> tr1]
        ELSE LET new == Rate(e, ratings1, ratings2, ranks)
             IN  [ok |-> TRUE,
                  tr |-> store_new_ratings(store_new_ratings(tr1, teams1, new[1]),
                                           teams2, new[2])]

-----------------------------------------------------------------------------
(* POST /push_results, lines 245-275 *)

\* `not teams`: a missing, null or empty list
Falsy(teams) == teams = <<>>

\* score1 > score2 raises TypeError when one is a number and the other is not
Comparable(s1, s2) == s1.t = s2.t

\* A body element is [dict, teams1, teams2, score1, score2]; dict is FALSE for an
\* element that is no JSON object (match.get raises AttributeError).
PushItem(teams1, teams2, score1, score2) ==
    [dict |-> TRUE, teams1 |-> teams1, teams2 |-> teams2,
     score1 |-> score1, score2 |-> score2]

NotADict ==
    [dict |-> FALSE, teams1 |-> <<>>, teams2 |-> <<>>, score1 |-> JNull, score2 |-> JNull]

\* The check of line 259
PushSkips(m) ==
    Falsy(m.teams1) \/ Falsy(m.teams2) \/ IsNone(m.score1) \/ IsNone(m.score2)

\* The loop of lines 254-274: [status, applied, tr]. An exception leaves the
\* loop with the table as it is at that point and is answered with status 500.
RECURSIVE push_loop(_, _, _, _)
push_loop(tr, e, data, applied_count) ==
    IF data = <<>> THEN [status |-> 200, applied |-> applied_count, tr |-> tr]
    ELSE LET match == Head(data) IN
         IF ~match.dict THEN [status |-> 500, applied |-> applied_count, tr |-> tr]
         ELSE IF PushSkips(match) THEN push_loop(tr, e, Tail(data), applied_count)
         ELSE IF ~Comparable(match.score1, match.score2)
              THEN [status |-> 500, applied |-> applied_count, tr |-> tr]
         ELSE LET r == rate_and_store(tr, e, match.teams1, match.teams2,
                                      RanksOf(match.score1.v, match.score2.v))
              IN  IF ~r.ok THEN [status |-> 500, applied |-> applied_count, tr |-> r.tr]
                  ELSE push_loop(r.tr, e, Tail(data), applied_count + 1)

\* The handler: body is [list, items]; list is FALSE for a body that is no list.
push_results_fn(tr, e, body) ==
    IF ~body.list THEN [status |-> 400, applied |-> 0, tr |-> tr]
    ELSE push_loop(tr, e, body.items, 0)

-----------------------------------------------------------------------------
(* POST /update, lines 162-243 *)

\* A fetched match is [dict, alliances, red, blue, actual_time, time, comp_level,
\* set_number, match_number]: dict is FALSE for an element that is no JSON
\* object, alliances is FALSE when the "alliances" member is missing or empty,
\* red and blue are [team_keys, score]. The provider sends comp_level,
\* set_number and match_number with every match; the handler reads none of them.
Side(team_keys, score) == [team_keys |-> team_keys, score |-> score]

TbaMatch(red, blue, actual_time, time) ==
    [dict |-> TRUE, alliances |-> TRUE, red |-> red, blue |-> blue,
     actual_time |-> actual_time, time |-> time,
     comp_level |-> "qm", set_number |-> 1, match_number |-> 1]

\* m.get('actual_time') or m.get('time') or 0, line 206
Truthy(j) == j.t = "num" /\ j.v # 0
SortKey(m) ==
    IF Truthy(m.actual_time) THEN m.actual_time.v
    ELSE IF Truthy(m.time) THEN m.time.v
    ELSE 0

\* The insertion that puts x before the elements of its own key
RECURSIVE InsertBeforeEqual(_, _)
InsertBeforeEqual(x, sorted) ==
    IF sorted = <<>> THEN <<x>>
    ELSE IF SortKey(Head(sorted)) < SortKey(x)
         THEN <<Head(sorted)>> \o InsertBeforeEqual(x, Tail(sorted))
         ELSE <<x>> \o sorted

\* list.sort is stable: x goes behind every element whose key is not greater
RECURSIVE InsertByKey(_, _)
InsertByKey(x, sorted) ==
    IF sorted = <<>> THEN <<x>>
    ELSE IF SortKey(Head(sorted)) <= SortKey(x)
         THEN <<Head(sorted)>> \o InsertByKey(x, Tail(sorted))
         ELSE <<x>> \o sorted

RECURSIVE SortedFrom(_, _)
SortedFrom(matches, acc) ==
    IF matches = <<>> THEN acc
    ELSE SortedFrom(Tail(matches), InsertByKey(Head(matches), acc))

\* Lines 205-208: the key function raises on an element that is no object; the
\* exception is swallowed and the list keeps its order.
sort_matches(matches) ==
    IF \E i \in 1..Len(matches) : ~matches[i].dict THEN matches
    ELSE SortedFrom(matches, <<>>)

\* The check of line 219
RebuildSkips(m) ==
    \/ IsNone(m.red.score) \/ IsNone(m.blue.score)
    \/ m.red.score.v < 0 \/ m.blue.score.v < 0

\* The loop of lines 209-236 over the sorted list: [status, tr, key, year].
\* ek and yr are the request's event_key and year, key and year the context.
RECURSIVE rebuild_loop(_, _, _, _, _, _, _)
rebuild_loop(tr, e, matches, ek, yr, key, year) ==
    IF matches = <<>> THEN [status |-> 200, tr |-> tr, key |-> key, year |-> year]
    ELSE LET match == Head(matches) IN
         IF ~match.dict THEN [status |-> 500, tr |-> tr, key |-> key, year |-> year]
         ELSE IF ~match.alliances \/ RebuildSkips(match)
              THEN rebuild_loop(tr, e, Tail(matches), ek, yr, key, year)
         ELSE LET r == rate_and_store(tr, e, match.red.team_keys, match.blue.team_keys,
                                      RanksOf(match.red.score.v, match.blue.score.v))
              IN  IF ~r.ok THEN [status |-> 500, tr |-> r.tr, key |-> key, year |-> year]
                  ELSE rebuild_loop(r.tr, e, Tail(matches), ek, yr, ek, yr)

\* A provider response is [kind, list, items]: kind "status" is a status other
\* than 200, "exc" a request or JSON decoding that raises, "ok" a 200 whose body
\* is the list `items` when list is TRUE and some other JSON value otherwise.
RespStatus == [kind |-> "status", list |-> FALSE, items |-> <<>>]
RespExc == [kind |-> "exc", list |-> FALSE, items |-> <<>>]
RespNotList == [kind |-> "ok", list |-> FALSE, items |-> <<>>]
RespList(items) == [kind |-> "ok", list |-> TRUE, items |-> items]

\* An event of the season's list: [key, resp], key FALSE when it has no 'key',
\* resp the provider's response to the fetch of its matches.
Event(resp) == [key |-> TRUE, resp |-> resp]

\* Lines 191-201: the matches gathered over the events of a season, and whether
\* a fetch raised. A status other than 200 and a body that is no list are passed
\* over.
RECURSIVE GatherRaises(_)
GatherRaises(events) ==
    /\ events # <<>>
    /\ \/ Head(events).key /\ Head(events).resp.kind = "exc"
       \/ GatherRaises(Tail(events))

RECURSIVE gather(_)
gather(events) ==
    IF events = <<>> THEN <<>>
    ELSE LET ev == Head(events) IN
         IF ev.key /\ ev.resp.kind = "ok" /\ ev.resp.list
         THEN ev.resp.items \o gather(Tail(events))
         ELSE gather(Tail(events))

\* Lines 204-236: clear, sort, replay
clear_and_replay(e, matches, ek, yr, key, year) ==
    rebuild_loop(EmptyDict, e, sort_matches(matches), ek, yr, key, year)

\* The handler without the clear of line 204: the replay starts from the table
\* as it is
update_ratings_fn_noclear(tr, e, key, year, req, resp) ==
    LET same(st) == [status |-> st, tr |-> tr, key |-> key, year |-> year]
        hasEv == ~IsNone(req.event_key)
        hasYr == ~IsNone(req.year)
        replay(matches) ==
            rebuild_loop(tr, e, sort_matches(matches), req.event_key, req.year, key, year)
    IN  IF (hasEv /\ hasYr) \/ (~hasEv /\ ~hasYr) THEN same(400)
        ELSE IF resp.kind # "ok" THEN same(500)
        ELSE IF hasEv THEN (IF resp.list THEN replay(resp.items) ELSE same(500))
        ELSE IF ~resp.list THEN same(500)
        ELSE IF GatherRaises(resp.items) THEN same(500)
        ELSE replay(gather(resp.items))

\* The handler. req is [event_key, year]; resp the provider's response to the
\* first fetch (the event's matches, or the season's events, whose items are
\* then events). The result is [status, tr, key, year].
update_ratings_fn(tr, e, key, year, req, resp) ==
    LET same(st) == [status |-> st, tr |-> tr, key |-> key, year |-> year]
        hasEv == ~IsNone(req.event_key)
        hasYr == ~IsNone(req.year)
    IN  IF (hasEv /\ hasYr) \/ (~hasEv /\ ~hasYr) THEN same(400)
        ELSE IF resp.kind # "ok" THEN same(500)
        ELSE IF hasEv
             THEN IF resp.list
                  THEN clear_and_replay(e, resp.items, req.event_key, req.year, key, year)
                  \* a body that is no list: cleared, then the loop raises
                  ELSE [status |-> 500, tr |-> EmptyDict, key |-> key, year |-> year]
        ELSE IF ~resp.list THEN same(500)
        ELSE IF GatherRaises(resp.items) THEN same(500)
        ELSE clear_and_replay(e, gather(resp.items), req.event_key, req.year, key, year)

-----------------------------------------------------------------------------
(* The snapshot: _build_export_payload, _apply_json_to_memory, lines 75-150 *)

\* Code points of the characters of team keys, for the order of sorted()
Ord(c) ==
    CASE c = " " -> 32
      [] c = "A" -> 65
      [] c = "B" -> 66
      [] c = "C" -> 67
      [] c = "a" -> 97
      [] c = "b" -> 98
      [] c = "c" -> 99
      [] OTHER -> 0

RECURSIVE StrLess(_, _)
StrLess(a, b) ==
    IF b = <<>> THEN FALSE
    ELSE IF a = <<>> THEN TRUE
    ELSE IF Head(a) = Head(b) THEN StrLess(Tail(a), Tail(b))
    ELSE Ord(Head(a)) < Ord(Head(b))

RECURSIVE SortedKeys(_)
SortedKeys(S) ==
    IF S = {} THEN <<>>
    ELSE LET k == CHOOSE x \in S : \A y \in S \ {x} : StrLess(x, y)
         IN  <<k>> \o SortedKeys(S \ {k})

\* An entry of "teams": [dict, team_key, mu, sigma]; the derived members
\* conservative_mu_3sigma and confidence_percent are never read back.
Entry(team_key, mu, sigma) ==
    [dict |-> TRUE, team_key |-> team_key, mu |-> mu, sigma |-> sigma]

\* _serialize_team_entry, lines 75-84
serialize_team_entry(team_key, rating) ==
    Entry(KStr(team_key), JNum(rating.mu), JNum(rating.sigma))

\* "meta.env" of a payload: [kind, mu, sigma, beta, tau, draw_probability];
\* kind is "ok", "absent" (no meta or no env) or "bad" (a member float() rejects)
EnvJson(e) ==
    [kind |-> "ok", mu |-> e.mu, sigma |-> e.sigma, beta |-> e.beta, tau |-> e.tau,
     draw_probability |-> e.draw_probability]

EnvAbsent ==
    [kind |-> "absent", mu |-> 0, sigma |-> 0, beta |-> 0, tau |-> 0,
     draw_probability |-> 0]

EnvBad ==
    [kind |-> "bad", mu |-> 0, sigma |-> 0, beta |-> 0, tau |-> 0,
     draw_probability |-> 0]

\* A payload: [env, event_key, year, teams]
Payload(envj, event_key, year, teams) ==
    [env |-> envj, event_key |-> event_key, year |-> year, teams |-> teams]

\* _build_export_payload, lines 86-106
build_export_payload(tr, e, key, year) ==
    LET ks == SortedKeys(DOMAIN tr)
    IN  Payload(EnvJson(e), key, year,
                [i \in 1..Len(ks) |-> serialize_team_entry(ks[i], tr[ks[i]])])

\* Lines 120-130 without the test of line 120: the environment is taken from
\* the payload whatever the flag
env_from_json_always(e, payload, use_env_from_json) ==
    IF payload.env.kind = "ok"
    THEN TrueSkill(payload.env.mu, payload.env.sigma, payload.env.beta,
                   payload.env.tau, payload.env.draw_probability)
    ELSE e

\* Lines 120-130: the environment after the optional re-creation
env_from_json(e, payload, use_env_from_json) ==
    IF use_env_from_json /\ payload.env.kind = "ok"
    THEN TrueSkill(payload.env.mu, payload.env.sigma, payload.env.beta,
                   payload.env.tau, payload.env.draw_probability)
    ELSE e

\* float(x) raises on a string that is no number
FloatRaises(j) == j.t = "str"

\* The loop of lines 133-142 with `break` where the code has `continue`
RECURSIVE load_entries_break(_, _)
load_entries_break(tr, teams) ==
    IF teams = <<>> THEN [ok |-> TRUE, tr |-> tr]
    ELSE LET entry == Head(teams)
             key == CanonKey(entry.team_key.v)
         IN  IF ~entry.dict THEN [ok |-> FALSE, tr |-> tr]
             ELSE IF IsNone(entry.team_key) THEN [ok |-> TRUE, tr |-> tr]
             ELSE IF key = <<>> \/ IsNone(entry.mu) \/ IsNone(entry.sigma)
                  THEN [ok |-> TRUE, tr |-> tr]
             ELSE IF FloatRaises(entry.mu) \/ FloatRaises(entry.sigma)
                     \/ RatingRaises(entry.mu.v, entry.sigma.v)
                  THEN [ok |-> FALSE, tr |-> tr]
             ELSE load_entries_break(Put(tr, key, Rating(entry.mu.v, entry.sigma.v)),
                                     Tail(teams))

\* The loop of lines 133-142: [ok, tr]; ok is FALSE when an entry raised
RECURSIVE load_entries(_, _)
load_entries(tr, teams) ==
    IF teams = <<>> THEN [ok |-> TRUE, tr |-> tr]
    ELSE LET entry == Head(teams)
             key == CanonKey(entry.team_key.v)
         IN  IF ~entry.dict THEN [ok |-> FALSE, tr |-> tr]
             ELSE IF IsNone(entry.team_key) THEN load_entries(tr, Tail(teams))
             ELSE IF key = <<>> \/ IsNone(entry.mu) \/ IsNone(entry.sigma)
                  THEN load_entries(tr, Tail(teams))
             ELSE IF FloatRaises(entry.mu) \/ FloatRaises(entry.sigma)
                     \/ RatingRaises(entry.mu.v, entry.sigma.v)
                  THEN [ok |-> FALSE, tr |-> tr]
             ELSE load_entries(Put(tr, key, Rating(entry.mu.v, entry.sigma.v)),
                               Tail(teams))

\* Lines 145-149: a year is null, a number, or a string of digits, which
\* becomes the int it spells
YDigits(n) == [t |-> "digits", v |-> n]
year_from_json(y) == IF y.t = "digits" THEN JNum(y.v) ELSE y

\* _apply_json_to_memory, lines 118-150: [ok, count, tr, env, key, year]
apply_json_to_memory(tr, e, key, year, payload, use_env_from_json) ==
    LET e1 == env_from_json(e, payload, use_env_from_json)
        r == load_entries(EmptyDict, payload.teams)
    IN  IF r.ok
        THEN [ok |-> TRUE, count |-> Cardinality(DOMAIN r.tr), tr |-> r.tr, env |-> e1,
              key |-> payload.event_key, year |-> year_from_json(payload.year)]
        ELSE [ok |-> FALSE, count |-> 0, tr |-> r.tr, env |-> e1,
              key |-> key, year |-> year]

\* The file at a path: absent, a JSON document, or no JSON document
FileMissing == [kind |-> "missing", payload |-> Payload(EnvAbsent, ENull, JNull, <<>>)]
FileJson(p) == [kind |-> "json", payload |-> p]
\* a file that holds no JSON document: empty, or cut off in the middle
FilePartial == [kind |-> "partial", payload |-> Payload(EnvAbsent, ENull, JNull, <<>>)]

\* load_data_from_json where the table is cleared before the file is read
load_data_fn_clear_first(tr, e, key, year, f, use_env_from_json) ==
    IF f.kind = "missing"
    THEN [status |-> 404, count |-> 0, tr |-> EmptyDict, env |-> e, key |-> key, year |-> year]
    ELSE IF f.kind = "partial"
    THEN [status |-> 500, count |-> 0, tr |-> EmptyDict, env |-> e, key |-> key, year |-> year]
    ELSE LET r == apply_json_to_memory(tr, e, key, year, f.payload, use_env_from_json)
         IN  [status |-> IF r.ok THEN 200 ELSE 500, count |-> r.count, tr |-> r.tr,
              env |-> r.env, key |-> r.key, year |-> r.year]

\* load_data_from_json, lines 421-436, on the file f: open() raises
\* FileNotFoundError on an absent file (404), json.load raises JSONDecodeError
\* on a file that holds no JSON document (500), both before anything is
\* assigned. [status, count, tr, env, key, year]
load_data_fn(tr, e, key, year, f, use_env_from_json) ==
    IF f.kind = "missing"
    THEN [status |-> 404, count |-> 0, tr |-> tr, env |-> e, key |-> key, year |-> year]
    ELSE IF f.kind = "partial"
    THEN [status |-> 500, count |-> 0, tr |-> tr, env |-> e, key |-> key, year |-> year]
    ELSE LET r == apply_json_to_memory(tr, e, key, year, f.payload, use_env_from_json)
         IN  [status |-> IF r.ok THEN 200 ELSE 500, count |-> r.count, tr |-> r.tr,
              env |-> r.env, key |-> r.key, year |-> r.year]

\* recalculate_values, lines 370-396, with the file f at DATA_PATH: json is TRUE
\* for {"source": "json"}. [status, count, tr, env, key, year, file]
recalculate_fn(tr, e, key, year, f, json) ==
    LET saved(t, k, y) == FileJson(build_export_payload(t, e, k, y))
    IN  IF ~json
        THEN [status |-> 200, count |-> Cardinality(DOMAIN tr), tr |-> tr, env |-> e,
              key |-> key, year |-> year, file |-> saved(tr, key, year)]
        ELSE LET r == load_data_fn(tr, e, key, year, f, FALSE)
             IN  IF r.status # 200
                 THEN [status |-> r.status, count |-> 0, tr |-> r.tr, env |-> r.env,
                       key |-> r.key, year |-> r.year, file |-> f]
                 ELSE [status |-> 200, count |-> Len(f.payload.teams), tr |-> r.tr,
                       env |-> r.env, key |-> r.key, year |-> r.year,
                       file |-> saved(r.tr, r.key, r.year)]

-----------------------------------------------------------------------------
(* GET /predict_team, lines 277-298, and POST /predict_match, lines 300-329 *)

\* The lookup of lines 285-287 on the parameter as given, not canonicalised
predict_team_fn_raw(tr, team) ==
    IF team = <<>> THEN [status |-> 400, key |-> team, rating |-> Rating(0, 1)]
    ELSE IF team \notin DOMAIN tr THEN [status |-> 404, key |-> team, rating |-> Rating(0, 1)]
    ELSE [status |-> 200, key |-> team, rating |-> tr[team]]

\* [status, key, rating]
predict_team_fn(tr, team) ==
    LET k == CanonKey(team)
    IN  IF team = <<>> THEN [status |-> 400, key |-> k, rating |-> Rating(0, 1)]
        ELSE IF k \notin DOMAIN tr THEN [status |-> 404, key |-> k, rating |-> Rating(0, 1)]
        ELSE [status |-> 200, key |-> k, rating |-> tr[k]]

\* The table after a predict_match request (lines 310-315)
predict_match_table(tr, teams1, teams2) ==
    IF Falsy(teams1) \/ Falsy(teams2) THEN tr
    ELSE get_team_ratings(get_team_ratings(tr, teams1), teams2)

\* env.cdf in thousandths, at x = n / denom for n >= 0 taken in tenths rounded
\* down; cdf(-x) is 1 - cdf(x)
PhiPos(x10) ==
    IF x10 = 0 THEN 500 ELSE IF x10 = 1 THEN 540 ELSE IF x10 = 2 THEN 579
    ELSE IF x10 = 3 THEN 618 ELSE IF x10 = 4 THEN 655 ELSE IF x10 = 5 THEN 691
    ELSE IF x10 = 6 THEN 726 ELSE IF x10 = 7 THEN 758 ELSE IF x10 = 8 THEN 788
    ELSE IF x10 = 9 THEN 816 ELSE IF x10 = 10 THEN 841 ELSE IF x10 <= 12 THEN 875
    ELSE IF x10 <= 15 THEN 919 ELSE IF x10 <= 19 THEN 964 ELSE IF x10 <= 29 THEN 990
    ELSE 999

Cdf(n, denom) ==
    IF n >= 0 THEN PhiPos((10 * n) \div denom)
    ELSE 1000 - PhiPos((10 * (-n)) \div denom)

\* Probabilities are thousandths: 1.0 is 1000
One == 1000
Half == 500

\* Lines 314-327 with team2_win_prob set to one half, not to 1.0 - win_prob
win_probs_half(tr, e, teams1, teams2) ==
    LET ratings1 == [i \in 1..Len(teams1) |-> tr[CanonKey(teams1[i])]]
        ratings2 == [i \in 1..Len(teams2) |-> tr[CanonKey(teams2[i])]]
        delta_mu == SumMu(ratings1) - SumMu(ratings2)
        N == Len(ratings1) + Len(ratings2)
        denom == ISqrt(N * e.beta * e.beta + SumVar(ratings1, 0) + SumVar(ratings2, 0))
        win_prob == IF denom # 0 THEN Cdf(delta_mu, denom) ELSE Half
    IN  [team1_win_prob |-> win_prob, team2_win_prob |-> Half]

\* Lines 314-327 and 346-360 on the table tr that holds every team of both
\* alliances: [team1_win_prob, team2_win_prob]
win_probs(tr, e, teams1, teams2) ==
    LET ratings1 == [i \in 1..Len(teams1) |-> tr[CanonKey(teams1[i])]]
        ratings2 == [i \in 1..Len(teams2) |-> tr[CanonKey(teams2[i])]]
        delta_mu == SumMu(ratings1) - SumMu(ratings2)
        N == Len(ratings1) + Len(ratings2)
        denom == ISqrt(N * e.beta * e.beta + SumVar(ratings1, 0) + SumVar(ratings2, 0))
        win_prob == IF denom # 0 THEN Cdf(delta_mu, denom) ELSE Half
    IN  [team1_win_prob |-> win_prob, team2_win_prob |-> One - win_prob]

NoProbs == [team1_win_prob |-> 0, team2_win_prob |-> 0]

\* predict_match, lines 300-329: [status, tr, probs]
predict_match_fn(tr, e, teams1, teams2) ==
    IF Falsy(teams1) \/ Falsy(teams2)
    THEN [status |-> 400, tr |-> tr, probs |-> NoProbs]
    ELSE LET tr1 == predict_match_table(tr, teams1, teams2)
         IN  [status |-> 200, tr |-> tr1, probs |-> win_probs(tr1, e, teams1, teams2)]

\* A body element of predict_batch is [dict, teams1, teams2]; a result is
\* [error, probs], error TRUE for {"error": "teams1/teams2 missing"}
Pair(teams1, teams2) == [dict |-> TRUE, teams1 |-> teams1, teams2 |-> teams2]
PairNotADict == [dict |-> FALSE, teams1 |-> <<>>, teams2 |-> <<>>]

\* The loop of lines 340-361: [status, tr, results]
RECURSIVE predict_batch_loop(_, _, _, _)
predict_batch_loop(tr, e, data, results) ==
    IF data = <<>> THEN [status |-> 200, tr |-> tr, results |-> results]
    ELSE LET match == Head(data) IN
         IF ~match.dict THEN [status |-> 500, tr |-> tr, results |-> <<>>]
         ELSE IF Falsy(match.teams1) \/ Falsy(match.teams2)
              THEN predict_batch_loop(tr, e, Tail(data),
                                      Append(results, [error |-> TRUE, probs |-> NoProbs]))
         ELSE LET tr1 == get_team_ratings(get_team_ratings(tr, match.teams1), match.teams2)
              IN  predict_batch_loop(tr1, e, Tail(data),
                     Append(results,
                            [error |-> FALSE,
                             probs |-> win_probs(tr1, e, match.teams1, match.teams2)]))

\* predict_batch, lines 331-362
predict_batch_fn(tr, e, body) ==
    IF ~body.list THEN [status |-> 400, tr |-> tr, results |-> <<>>]
    ELSE predict_batch_loop(tr, e, body.items, <<>>)

-----------------------------------------------------------------------------
(* GET /leaderboard, lines 438-450 *)

\* "conservative_mu_3sigma" of a serialized entry, line 82
conservative_mu_3sigma(entry) == entry.mu.v - 3 * entry.sigma.v

\* The order of an ascending sort
ComesFirstAscending(a, b) == conservative_mu_3sigma(a) <= conservative_mu_3sigma(b)

\* Line 449, sort by conservative_mu_3sigma with reverse=True: entry a may
\* stand before entry b
ComesFirst(a, b) == conservative_mu_3sigma(a) >= conservative_mu_3sigma(b)

\* The lists that the sort of the serialized entries of the keys K can give.
\* Entries of equal conservative_mu_3sigma keep the order in which the dict
\* yields them (its insertion order, which the table of the model does not
\* keep): each of their orders is a possible list.
RECURSIVE sorted_entries(_, _)
sorted_entries(tr, K) ==
    IF K = {} THEN {<<>>}
    ELSE LET entry(k) == serialize_team_entry(k, tr[k])
             top == {k \in K : \A y \in K : ComesFirst(entry(k), entry(y))}
         IN  UNION {{<<entry(k)>> \o rest : rest \in sorted_entries(tr, K \ {k})} :
                       k \in top}

\* get_leaderboard, lines 444-450: the possible values of "teams"
leaderboard_teams(tr) == sorted_entries(tr, DOMAIN tr)

-----------------------------------------------------------------------------
(* The inputs of the requests *)

kA == <<"a">>
kUpperA == <<"A">>
kPaddedA == <<"a", " ">>
kB == <<"b">>
kC == <<"c">>
kBlank == <<" ">>

Scored(teams1, teams2, s1, s2) == PushItem(teams1, teams2, JNum(s1), JNum(s2))

PushWin == Scored(<<kA>>, <<kB>>, 2, 1)
PushLoss == Scored(<<kB>>, <<kC>>, 0, 3)
PushUpper == Scored(<<kUpperA>>, <<kB>>, 2, 1)
PushPadded == Scored(<<kPaddedA>>, <<kC>>, 1, 2)
PushBlank == Scored(<<kBlank>>, <<kB>>, 1, 0)
PushPair == Scored(<<kA, kC>>, <<kB>>, 3, 1)
PushDraw == Scored(<<kA>>, <<kB>>, 1, 1)
PushNegative == Scored(<<kA>>, <<kB>>, -1, 1)
PushEmptySide == Scored(<<>>, <<kB>>, 1, 0)
PushNoScore == PushItem(<<kA>>, <<kB>>, JNull, JNum(1))
PushStrScore == PushItem(<<kA>>, <<kB>>, JBadStr, JNum(1))

Body(items) == [list |-> TRUE, items |-> items]
BodyNotList == [list |-> FALSE, items |-> <<>>]

PushBodies ==
    { BodyNotList, Body(<<>>), Body(<<PushWin>>), Body(<<PushWin, PushLoss>>),
      Body(<<PushUpper>>), Body(<<PushPadded, PushUpper>>), Body(<<PushBlank>>),
      Body(<<PushPair>>), Body(<<PushWin, PushDraw>>), Body(<<PushNegative>>),
      Body(<<PushWin, PushNegative>>), Body(<<PushEmptySide, PushWin>>),
      Body(<<PushNoScore, PushLoss>>), Body(<<PushWin, NotADict>>),
      Body(<<PushLoss, PushStrScore>>) }

Played(red, blue, s1, s2, actual_time, time) ==
    TbaMatch(Side(red, JNum(s1)), Side(blue, JNum(s2)), actual_time, time)

TbaWin == Played(<<kA>>, <<kB>>, 2, 1, JNum(10), JNull)
TbaEarlier == Played(<<kC>>, <<kB>>, 3, 0, JNull, JNum(5))
TbaUpper == Played(<<kUpperA>>, <<kB>>, 2, 1, JNum(7), JNum(9))
TbaDraw == Played(<<kA>>, <<kB>>, 1, 1, JNum(11), JNull)
TbaUnplayed == Played(<<kA>>, <<kC>>, -1, -1, JNull, JNull)
TbaEmptyRed == Played(<<>>, <<kB>>, 1, 2, JNum(12), JNull)
TbaNoScore == TbaMatch(Side(<<kA>>, JNull), Side(<<kB>>, JNum(1)), JNum(3), JNull)
TbaFinal ==
    [Played(<<kA>>, <<kC>>, 1, 3, JNum(10), JNull) EXCEPT !.comp_level = "f"]
TbaSecond ==
    [Played(<<kB>>, <<kC>>, 2, 0, JNull, JNull) EXCEPT !.match_number = 2]
TbaFirst == Played(<<kA>>, <<kB>>, 0, 2, JNull, JNull)
TbaNoAlliances == [TbaWin EXCEPT !.alliances = FALSE]
TbaNotADict == [TbaWin EXCEPT !.dict = FALSE]

EventResponses ==
    { RespStatus, RespExc, RespNotList, RespList(<<>>), RespList(<<TbaWin>>),
      RespList(<<TbaWin, TbaEarlier>>), RespList(<<TbaUpper>>),
      RespList(<<TbaUnplayed>>), RespList(<<TbaWin, TbaUnplayed>>),
      RespList(<<TbaEmptyRed>>), RespList(<<TbaWin, TbaEmptyRed>>),
      RespList(<<TbaNoAlliances, TbaEarlier>>), RespList(<<TbaNoScore, TbaWin>>),
      RespList(<<TbaDraw>>), RespList(<<TbaWin, TbaNotADict>>),
      RespList(<<TbaFinal, TbaWin>>), RespList(<<TbaSecond, TbaFirst>>) }

EventOk(items) == Event(RespList(items))
EventNoKey == [key |-> FALSE, resp |-> RespStatus]

SeasonResponses ==
    { RespStatus, RespExc, RespNotList, RespList(<<>>),
      RespList(<<EventOk(<<TbaWin>>), EventOk(<<TbaEarlier>>)>>),
      RespList(<<EventOk(<<TbaWin>>), Event(RespStatus)>>),
      RespList(<<Event(RespStatus), EventOk(<<TbaEarlier>>)>>),
      RespList(<<EventOk(<<TbaWin>>), Event(RespExc)>>),
      RespList(<<EventOk(<<TbaWin>>), Event(RespNotList)>>),
      RespList(<<EventNoKey, EventOk(<<TbaUnplayed, TbaEarlier>>)>>) }

ReqEvent == [event_key |-> EStr("2024ev"), year |-> JNull]
ReqSeason == [event_key |-> ENull, year |-> JNum(2024)]
ReqNeither == [event_key |-> ENull, year |-> JNull]

\* Snapshot files at a path the caller names
OtherEnv == EnvJson(TrueSkill(30, 10, 5, 1, 10))
Num(team_key, mu, sigma) == Entry(KStr(team_key), JNum(mu), JNum(sigma))
EntryNullKey == Entry(KNull, JNum(21), JNum(4))
EntryBlankKey == Entry(KStr(kBlank), JNum(22), JNum(4))
EntryNoMu == Entry(KStr(kB), JNull, JNum(4))
EntryNoSigma == Entry(KStr(kC), JNum(23), JNull)
EntryBadSigma == Entry(KStr(kB), JNum(24), JBadStr)
EntryZeroSigma == Entry(KStr(kB), JNum(24), JNum(0))
EntryNegSigma == Entry(KStr(kA), JNum(24), JNum(-3))
EntryNotADict == [Num(kB, 0, 1) EXCEPT !.dict = FALSE]

Snapshots ==
    { Payload(OtherEnv, EStr("2023ev"), JNull, <<Num(kA, 20, 5), Num(kB, 28, 3)>>),
      Payload(EnvAbsent, ENull, JNum(2023),
              <<Num(kA, 20, 5), EntryNullKey, EntryNoMu, Num(kC, 31, 2)>>),
      Payload(OtherEnv, ENull, YDigits(2022),
              <<EntryBlankKey, Num(kUpperA, 30, 2), EntryNoSigma, Num(kA, 10, 9)>>),
      Payload(EnvBad, ENull, JNull, <<>>),
      Payload(EnvAbsent, EStr("2023ev"), JNull,
              <<Num(kA, 20, 5), EntryBadSigma, Num(kC, 31, 2)>>),
      Payload(EnvAbsent, ENull, JNull, <<Num(kC, 31, 2), EntryNegSigma, EntryZeroSigma>>),
      Payload(OtherEnv, ENull, JNull, <<Num(kPaddedA, 26, 6), EntryNotADict>>),
      Payload(OtherEnv, ENull, JNull, <<Num(kA, 20, 2), Num(kB, 20, 2)>>) }

PredictPairs ==
    { <<(<<kA>>), (<<kB>>)>>, <<(<<kUpperA>>), (<<kC>>)>>, <<(<<>>), (<<kA>>)>> }

LookupKeys == {kA, kUpperA, kB, <<>>}

PredictBatches ==
    { BodyNotList,
      Body(<<Pair(<<kA>>, <<kB>>), Pair(<<kPaddedA, kB>>, <<kC>>)>>),
      Body(<<Pair(<<>>, <<kA>>), Pair(<<kB>>, <<kUpperA>>)>>),
      Body(<<Pair(<<kC>>, <<kB>>), PairNotADict>>) }

-----------------------------------------------------------------------------
(* The state machine: one request at a time *)


Pre == [tr |-> TEAM_RATINGS, env |-> env, key |-> LAST_EVENT_KEY, year |-> LAST_YEAR]

Served(op, req, arg, status, n) ==
    /\ last' = [op |-> op, pre |-> Pre, req |-> req, arg |-> arg, status |-> status, n |-> n]
    /\ steps' = steps + 1

NoJob == [kind |-> "idle", todo |-> <<>>, pre |-> EmptyDict, final |-> EmptyDict,
          req |-> <<ENull, JNull>>, fetched |-> <<>>, failed |-> FALSE]

NotSeen == [op |-> "none", during |-> "idle", what |-> 0, before |-> 0, after |-> 0]

Init ==
    /\ TEAM_RATINGS = EmptyDict
    /\ env = TrueSkill(DEFAULT_MU, DEFAULT_SIGMA, 25 \div 6, 25 \div 300, 0)
    /\ LAST_EVENT_KEY = ENull
    /\ LAST_YEAR = JNull
    /\ file = FileMissing
    /\ last = [op |-> "init", pre |-> 0, req |-> 0, arg |-> 0, status |-> 0, n |-> 0]
    /\ steps = 0
    /\ job = NoJob
    /\ seen = NotSeen

update_ratings ==
    /\ steps < MaxSteps
    /\ \E req \in {ReqEvent, ReqSeason, ReqNeither} :
       \E resp \in (IF req = ReqSeason THEN SeasonResponses ELSE EventResponses) :
          LET r == update_ratings_fn(TEAM_RATINGS, env, LAST_EVENT_KEY, LAST_YEAR, req, resp)
          IN  /\ req = ReqNeither => resp = RespStatus
              /\ TEAM_RATINGS' = r.tr
              /\ LAST_EVENT_KEY' = r.key
              /\ LAST_YEAR' = r.year
              /\ Served("update", req, resp, r.status, Cardinality(DOMAIN r.tr))
    /\ UNCHANGED <<env, file, job, seen>>

push_results ==
    /\ steps < MaxSteps
    /\ \E body \in PushBodies :
          LET r == push_results_fn(TEAM_RATINGS, env, body)
          IN  /\ TEAM_RATINGS' = r.tr
              /\ Served("push", body, 0, r.status, r.applied)
    /\ UNCHANGED <<env, LAST_EVENT_KEY, LAST_YEAR, file, job, seen>>

predict_team ==
    /\ steps < MaxSteps
    /\ \E team \in LookupKeys :
          LET r == predict_team_fn(TEAM_RATINGS, team)
          IN  Served("predict_team", team, r.rating, r.status, 0)
    /\ UNCHANGED <<TEAM_RATINGS, env, LAST_EVENT_KEY, LAST_YEAR, file, job, seen>>

predict_match ==
    /\ steps < MaxSteps
    /\ \E pair \in PredictPairs :
          LET r == predict_match_fn(TEAM_RATINGS, env, pair[1], pair[2])
          IN  /\ TEAM_RATINGS' = r.tr
              /\ Served("predict_match", pair, r.probs, r.status, 0)
    /\ UNCHANGED <<env, LAST_EVENT_KEY, LAST_YEAR, file, job, seen>>

predict_batch ==
    /\ steps < MaxSteps
    /\ \E body \in PredictBatches :
          LET r == predict_batch_fn(TEAM_RATINGS, env, body)
          IN  /\ TEAM_RATINGS' = r.tr
              /\ Served("predict_batch", body, r.results, r.status, Len(r.results))
    /\ UNCHANGED <<env, LAST_EVENT_KEY, LAST_YEAR, file, job, seen>>

\* POST /upload_data, lines 398-409
upload_data ==
    /\ steps < MaxSteps
    /\ file' = FileJson(build_export_payload(TEAM_RATINGS, env, LAST_EVENT_KEY, LAST_YEAR))
    /\ Served("upload", 0, 0, 200, Cardinality(DOMAIN TEAM_RATINGS))
    /\ UNCHANGED <<TEAM_RATINGS, env, LAST_EVENT_KEY, LAST_YEAR, job, seen>>

\* GET /leaderboard, lines 438-450: the response holds the sorted list "teams"
\* and its length "teams_indexed"
get_leaderboard ==
    /\ steps < MaxSteps
    /\ \E teams \in leaderboard_teams(TEAM_RATINGS) :
          Served("leaderboard", 0, teams, 200, Len(teams))
    /\ UNCHANGED <<TEAM_RATINGS, env, LAST_EVENT_KEY, LAST_YEAR, file, job, seen>>

\* POST /load_data, lines 411-436: the file is the one at DATA_PATH or one at
\* a path given in the body
load_data_from_json ==
    /\ steps < MaxSteps
    /\ \E f \in {file, FilePartial} \cup {FileJson(p) : p \in Snapshots} :
       \E use_env_from_json \in BOOLEAN :
          LET r == load_data_fn(TEAM_RATINGS, env, LAST_EVENT_KEY, LAST_YEAR, f,
                                use_env_from_json)
          IN  /\ TEAM_RATINGS' = r.tr
              /\ env' = r.env
              /\ LAST_EVENT_KEY' = r.key
              /\ LAST_YEAR' = r.year
              /\ Served("load", f, use_env_from_json, r.status, r.count)
    /\ UNCHANGED <<file, job, seen>>

\* POST /recalculate, lines 364-396
recalculate_values ==
    /\ steps < MaxSteps
    /\ \E json \in BOOLEAN :
          LET r == recalculate_fn(TEAM_RATINGS, env, LAST_EVENT_KEY, LAST_YEAR, file, json)
          IN  /\ TEAM_RATINGS' = r.tr
              /\ env' = r.env
              /\ LAST_EVENT_KEY' = r.key
              /\ LAST_YEAR' = r.year
              /\ file' = r.file
              /\ Served("recalculate", file, json, r.status, r.count)
    /\ UNCHANGED <<job, seen>>

Next ==
    \/ update_ratings
    \/ push_results
    \/ predict_team
    \/ predict_match
    \/ predict_batch
    \/ upload_data
    \/ get_leaderboard
    \/ load_data_from_json
    \/ recalculate_values

Spec == Init /\ [][Next]_vars

-----------------------------------------------------------------------------
(* The threaded server (app.run of line 455 serves each request in a thread *)
(* of its own): a write request advances one statement group at a time, and *)
(* read requests run in between. `job` is the write request in progress:    *)
(* [kind, todo, pre, final], todo the elements its loop has yet to visit,   *)
(* pre the table when it began, final the table it ends with when nothing   *)
(* interleaves (what the handler run as a whole yields from pre). A rebuild *)
(* is first of kind "fetch", todo the events whose matches it has yet to    *)
(* fetch, fetched the matches gathered so far, failed whether a fetch of it *)
(* did not give a 200 list.                                                 *)

MaxJobs == 2

Running(kind, todo, final) ==
    [kind |-> kind, todo |-> todo, pre |-> TEAM_RATINGS, final |-> final,
     req |-> <<LAST_EVENT_KEY, LAST_YEAR>>, fetched |-> <<>>, failed |-> FALSE]

InitThreaded ==
    /\ TEAM_RATINGS = EmptyDict
    /\ env = TrueSkill(DEFAULT_MU, DEFAULT_SIGMA, 25 \div 6, 25 \div 300, 0)
    /\ LAST_EVENT_KEY = ENull
    /\ LAST_YEAR = JNull
    /\ file = FileMissing
    /\ last = [op |-> "init", pre |-> 0, req |-> 0, arg |-> 0, status |-> 0, n |-> 0]
    /\ steps = 0
    /\ job = NoJob
    /\ seen = NotSeen

\* update_ratings, lines 165-190: the request names an event or a season and
\* the first fetch gave a list, the matches of the event or the events of the
\* season
t_update_begin ==
    /\ job.kind = "idle" /\ steps < MaxJobs
    /\ \E req \in {ReqEvent, ReqSeason} :
       \E resp \in (IF req = ReqSeason THEN SeasonResponses ELSE EventResponses) :
          /\ resp.kind = "ok" /\ resp.list
          /\ LET r == update_ratings_fn(TEAM_RATINGS, env, LAST_EVENT_KEY, LAST_YEAR,
                                        req, resp)
             IN  job' = [Running("fetch", IF req = ReqSeason THEN resp.items ELSE <<>>, r.tr)
                            EXCEPT !.req = <<req.event_key, req.year>>,
                                   !.fetched = IF req = ReqSeason THEN <<>> ELSE resp.items]
    /\ steps' = steps + 1
    /\ seen' = NotSeen
    /\ UNCHANGED <<TEAM_RATINGS, env, LAST_EVENT_KEY, LAST_YEAR, file, last>>

\* one iteration of the loop of lines 191-201: the matches of one event are
\* fetched. A fetch that raises ends the request (line 203); a status other
\* than 200 and a body that is no list are passed over.
t_update_fetch ==
    /\ job.kind = "fetch" /\ job.todo # <<>>
    /\ LET ev == Head(job.todo)
       IN  job' = IF ~ev.key THEN [job EXCEPT !.todo = Tail(job.todo)]
                  ELSE IF ev.resp.kind = "exc" THEN NoJob
                  ELSE IF ev.resp.kind = "ok" /\ ev.resp.list
                       THEN [job EXCEPT !.todo = Tail(job.todo),
                                        !.fetched = job.fetched \o ev.resp.items]
                  ELSE [job EXCEPT !.todo = Tail(job.todo), !.failed = TRUE]
    /\ seen' = NotSeen
    /\ UNCHANGED <<TEAM_RATINGS, env, LAST_EVENT_KEY, LAST_YEAR, file, last, steps>>

\* lines 204-208: the gather phase is over, the table is cleared and the
\* matches are sorted
t_update_clear ==
    /\ job.kind = "fetch" /\ job.todo = <<>>
    /\ job' = [job EXCEPT !.kind = "update", !.todo = sort_matches(job.fetched),
                          !.fetched = <<>>]
    /\ TEAM_RATINGS' = EmptyDict
    /\ seen' = NotSeen
    /\ UNCHANGED <<env, LAST_EVENT_KEY, LAST_YEAR, file, last, steps>>

\* one iteration of the loop of lines 209-236
t_update_match ==
    /\ job.kind = "update" /\ job.todo # <<>>
    /\ LET r == rebuild_loop(TEAM_RATINGS, env, <<Head(job.todo)>>, job.req[1], job.req[2],
                             LAST_EVENT_KEY, LAST_YEAR)
       IN  /\ TEAM_RATINGS' = r.tr
           /\ LAST_EVENT_KEY' = r.key
           /\ LAST_YEAR' = r.year
           /\ job' = IF r.status = 200 THEN [job EXCEPT !.todo = Tail(job.todo)] ELSE NoJob
    /\ seen' = NotSeen
    /\ UNCHANGED <<env, file, last, steps>>

\* push_results up to line 253
t_push_begin ==
    /\ job.kind = "idle" /\ steps < MaxJobs
    /\ \E body \in PushBodies :
          /\ body.list
          /\ job' = Running("push", body.items, push_results_fn(TEAM_RATINGS, env, body).tr)
    /\ steps' = steps + 1
    /\ seen' = NotSeen
    /\ UNCHANGED <<TEAM_RATINGS, env, LAST_EVENT_KEY, LAST_YEAR, file, last>>

\* one iteration of the loop of lines 254-274
t_push_item ==
    /\ job.kind = "push" /\ job.todo # <<>>
    /\ LET r == push_loop(TEAM_RATINGS, env, <<Head(job.todo)>>, 0)
       IN  /\ TEAM_RATINGS' = r.tr
           /\ job' = IF r.status = 200 THEN [job EXCEPT !.todo = Tail(job.todo)] ELSE NoJob
    /\ seen' = NotSeen
    /\ UNCHANGED <<env, LAST_EVENT_KEY, LAST_YEAR, file, last, steps>>

\* _apply_json_to_memory up to line 132, called by load_data_from_json
t_load_clear ==
    /\ job.kind = "idle" /\ steps < MaxJobs
    /\ \E p \in Snapshots : \E use_env_from_json \in BOOLEAN :
          /\ job' = [Running("load", p.teams,
                             apply_json_to_memory(TEAM_RATINGS, env, LAST_EVENT_KEY,
                                                  LAST_YEAR, p, use_env_from_json).tr)
                        EXCEPT !.req = <<p.event_key, p.year>>]
          /\ env' = env_from_json(env, p, use_env_from_json)
    /\ TEAM_RATINGS' = EmptyDict
    /\ steps' = steps + 1
    /\ seen' = NotSeen
    /\ UNCHANGED <<LAST_EVENT_KEY, LAST_YEAR, file, last>>

\* one iteration of the loop of lines 133-142
t_load_entry ==
    /\ job.kind = "load" /\ job.todo # <<>>
    /\ LET r == load_entries(TEAM_RATINGS, <<Head(job.todo)>>)
       IN  /\ TEAM_RATINGS' = r.tr
           /\ job' = IF r.ok THEN [job EXCEPT !.todo = Tail(job.todo)] ELSE NoJob
    /\ seen' = NotSeen
    /\ UNCHANGED <<env, LAST_EVENT_KEY, LAST_YEAR, file, last, steps>>

\* _save_trueskill_json, lines 109-110, called by upload_data: the payload is
\* built and the file at DATA_PATH is opened for writing, which empties it
t_save_open ==
    /\ job.kind = "idle" /\ steps < MaxJobs
    /\ job' = Running("save",
                      <<build_export_payload(TEAM_RATINGS, env, LAST_EVENT_KEY, LAST_YEAR)>>,
                      TEAM_RATINGS)
    /\ file' = FilePartial
    /\ steps' = steps + 1
    /\ seen' = NotSeen
    /\ UNCHANGED <<TEAM_RATINGS, env, LAST_EVENT_KEY, LAST_YEAR, last>>

\* line 111: json.dump writes the document into the open file
t_save_write ==
    /\ job.kind = "save" /\ job.todo # <<>>
    /\ file' = FileJson(Head(job.todo))
    /\ job' = [job EXCEPT !.todo = Tail(job.todo)]
    /\ seen' = NotSeen
    /\ UNCHANGED <<TEAM_RATINGS, env, LAST_EVENT_KEY, LAST_YEAR, last, steps>>

\* The process dies while a save is in progress and is started again: the
\* globals are those of lines 43-52, the file is as the save left it
t_crash ==
    /\ job.kind = "save"
    /\ TEAM_RATINGS' = EmptyDict
    /\ env' = TrueSkill(DEFAULT_MU, DEFAULT_SIGMA, 25 \div 6, 25 \div 300, 0)
    /\ LAST_EVENT_KEY' = ENull
    /\ LAST_YEAR' = JNull
    /\ job' = NoJob
    /\ seen' = NotSeen
    /\ UNCHANGED <<file, last, steps>>

\* the end of a write request: lines 237-243, 275, 143-150, 112
t_done ==
    /\ job.kind # "idle" /\ job.todo = <<>>
    /\ IF job.kind = "load"
       THEN /\ LAST_EVENT_KEY' = job.req[1]
            /\ LAST_YEAR' = year_from_json(job.req[2])
       ELSE UNCHANGED <<LAST_EVENT_KEY, LAST_YEAR>>
    /\ job' = NoJob
    /\ seen' = NotSeen
    /\ UNCHANGED <<TEAM_RATINGS, env, file, last, steps>>

\* What a read request returns on table tr: the lookup of predict_team, and the
\* entries that leaderboard and the export serialize
LookupOn(tr, team) ==
    LET r == predict_team_fn(tr, team) IN <<r.status, r.rating>>

\* predict_team, lines 282-298, between two steps of a writer
t_predict_team ==
    /\ \E team \in LookupKeys \ {<<>>} :
          seen' = [op |-> "predict_team", during |-> job.kind,
                   what |-> LookupOn(TEAM_RATINGS, team),
                   before |-> LookupOn(job.pre, team),
                   after |-> LookupOn(job.final, team)]
    /\ UNCHANGED <<TEAM_RATINGS, env, LAST_EVENT_KEY, LAST_YEAR, file, last, steps, job>>

\* get_leaderboard, lines 444-450, and the export of line 87 read every entry
t_leaderboard ==
    /\ seen' = [op |-> "leaderboard", during |-> job.kind, what |-> TEAM_RATINGS,
                before |-> job.pre, after |-> job.final]
    /\ UNCHANGED <<TEAM_RATINGS, env, LAST_EVENT_KEY, LAST_YEAR, file, last, steps, job>>

NextThreaded ==
    \/ t_update_begin
    \/ t_update_fetch
    \/ t_update_clear
    \/ t_update_match
    \/ t_push_begin
    \/ t_push_item
    \/ t_load_clear
    \/ t_load_entry
    \/ t_save_open
    \/ t_save_write
    \/ t_crash
    \/ t_done
    \/ t_predict_team
    \/ t_leaderboard

SpecThreaded == InitThreaded /\ [][NextThreaded]_vars

-----------------------------------------------------------------------------
(* The claims *)

\* A fetch failed: a status other than 200, a request that raised, or a body
\* that is not the list it should be
FetchFailed(resp) == resp.kind # "ok" \/ ~resp.list

GatherFailed(req, resp) ==
    \/ FetchFailed(resp)
    \/ /\ req = ReqSeason
       /\ \E i \in 1..Len(resp.items) :
             resp.items[i].key /\ FetchFailed(resp.items[i].resp)

\* C1: when any fetch of a rebuild's gather phase fails, the rebuild is aborted
\* and the table after the request is the table before it.
C1_RebuildAllOrNothing ==
    (last.op = "update" /\ last.status # 400 /\ GatherFailed(last.req, last.arg))
        => /\ last.status # 200
           /\ TEAM_RATINGS = last.pre.tr

\* C2: a read request that runs while a write request is in progress observes
\* the table as it was before the writer's batch or as it is after the whole
\* batch, never a part of the batch.
C2_NoPartialBatchObserved ==
    (seen.op # "none" /\ seen.during # "idle")
        => (seen.what = seen.before \/ seen.what = seen.after)

\* A record that must be skipped: an alliance empty, a score missing, a score
\* negative
Malformed(m) ==
    \/ Falsy(m.teams1) \/ Falsy(m.teams2)
    \/ IsNone(m.score1) \/ IsNone(m.score2)
    \/ (m.score1.t = "num" /\ m.score1.v < 0)
    \/ (m.score2.t = "num" /\ m.score2.v < 0)

NotMalformed(m) == ~Malformed(m)

\* A record that is an object whose scores are numbers or missing
RecordShaped(m) ==
    m.dict /\ m.score1.t \in {"num", "null"} /\ m.score2.t \in {"num", "null"}

PushOfRecords ==
    /\ last.op = "push"
    /\ last.req.list
    /\ \A i \in 1..Len(last.req.items) : RecordShaped(last.req.items[i])

\* C3: a push changes the table exactly as the push of the same batch with the
\* malformed records removed.
C3_PushSkipsMalformed ==
    PushOfRecords
        => TEAM_RATINGS =
              push_results_fn(last.pre.tr, last.pre.env,
                              Body(SelectSeq(last.req.items, NotMalformed))).tr

\* C4: the applied count of a push that succeeds is the number of records of the
\* batch that are not malformed.
C4_AppliedCountsValidRecords ==
    (PushOfRecords /\ last.status = 200)
        => last.n = Len(SelectSeq(last.req.items, NotMalformed))

\* A fetched record that is valid: both alliances non-empty, both scores present
\* and not negative
TbaValid(m) ==
    /\ m.alliances
    /\ m.red.team_keys # <<>> /\ m.blue.team_keys # <<>>
    /\ ~IsNone(m.red.score) /\ ~IsNone(m.blue.score)
    /\ m.red.score.v >= 0 /\ m.blue.score.v >= 0

Fetched(req, resp) == IF req = ReqSeason THEN gather(resp.items) ELSE resp.items

RebuildOfRecords ==
    /\ last.op = "update" /\ last.status # 400
    /\ ~GatherFailed(last.req, last.arg)
    /\ \A i \in 1..Len(Fetched(last.req, last.arg)) : Fetched(last.req, last.arg)[i].dict

\* C5: a rebuild ends with the table that the replay of the valid records alone
\* yields, and an invalid record does not make it fail.
C5_RebuildSkipsInvalid ==
    RebuildOfRecords
        => LET valid == SelectSeq(Fetched(last.req, last.arg), TbaValid)
               want == clear_and_replay(last.pre.env, valid, last.req.event_key,
                                        last.req.year, last.pre.key, last.pre.year)
           IN  /\ TEAM_RATINGS = want.tr
               /\ want.status = 200 => last.status = 200

\* A snapshot entry with a key, a mu and a sigma
WellFormed(entry) ==
    /\ entry.dict
    /\ ~IsNone(entry.team_key) /\ CanonKey(entry.team_key.v) # <<>>
    /\ entry.mu.t = "num"
    /\ entry.sigma.t = "num" /\ entry.sigma.v > 0

\* A snapshot entry that lacks its key, its mu or its sigma
Lacking(entry) ==
    /\ entry.dict
    /\ \/ IsNone(entry.team_key) \/ CanonKey(entry.team_key.v) = <<>>
       \/ IsNone(entry.mu) \/ IsNone(entry.sigma)

\* The well-formed entries of a list of entries, as a table (of two entries of
\* one key the later one counts)
WellFormedTable(teams) ==
    LET idx == {i \in 1..Len(teams) : WellFormed(teams[i])}
        keyAt(i) == CanonKey(teams[i].team_key.v)
        lastOf(k) == CHOOSE i \in idx : keyAt(i) = k /\ \A j \in idx : keyAt(j) = k => j <= i
    IN  [k \in {keyAt(i) : i \in idx} |->
            [mu |-> teams[lastOf(k)].mu.v, sigma |-> teams[lastOf(k)].sigma.v]]

\* an import that read a JSON document
ImportDone == last.op = "load" /\ last.req.kind = "json"

\* C6: after an import attempt the table is the table before it or the
\* well-formed entries of the snapshot.
C6_ImportIsAtomic ==
    ImportDone
        => \/ TEAM_RATINGS = last.pre.tr
           \/ TEAM_RATINGS = WellFormedTable(last.req.payload.teams)

ImportOfMixedEntries ==
    /\ ImportDone
    /\ \A i \in 1..Len(last.req.payload.teams) :
          WellFormed(last.req.payload.teams[i]) \/ Lacking(last.req.payload.teams[i])

\* C7: the import of a snapshot whose entries are well-formed or lack a key, mu
\* or sigma succeeds, leaves exactly the well-formed entries in the table and
\* returns the number of their distinct keys.
C7_ImportSkipsLackingEntries ==
    ImportOfMixedEntries
        => /\ last.status = 200
           /\ TEAM_RATINGS = WellFormedTable(last.req.payload.teams)
           /\ last.n = Cardinality(DOMAIN WellFormedTable(last.req.payload.teams))

C7_Witness ==
    /\ ImportOfMixedEntries
    /\ \E i, j \in 1..Len(last.req.payload.teams) :
          WellFormed(last.req.payload.teams[i]) /\ Lacking(last.req.payload.teams[j])
    /\ last.pre.tr # EmptyDict
    /\ last.status = 200
    /\ TEAM_RATINGS # EmptyDict

\* C8: in every state the import of the export of the state gives the state
\* back: table, environment and session context, with the environment taken from
\* the snapshot or not.
C8_ExportImportIdentity ==
    \A use_env_from_json \in BOOLEAN :
        LET p == build_export_payload(TEAM_RATINGS, env, LAST_EVENT_KEY, LAST_YEAR)
            r == apply_json_to_memory(TEAM_RATINGS, env, LAST_EVENT_KEY, LAST_YEAR, p,
                                      use_env_from_json)
        IN  /\ r.ok
            /\ r.tr = TEAM_RATINGS
            /\ r.env = env
            /\ r.key = LAST_EVENT_KEY
            /\ r.year = LAST_YEAR

\* C9: every key of the table is in canonical form (trimmed, lowercase).
C9_KeysCanonical ==
    \A k \in DOMAIN TEAM_RATINGS : CanonKey(k) = k

\* C10: a belief that predict creates has the prior mu and sigma of the
\* environment in force.
C10_CreatedWithEnvPrior ==
    last.op = "predict_match"
        => \A k \in (DOMAIN TEAM_RATINGS) \ (DOMAIN last.pre.tr) :
              TEAM_RATINGS[k] = [mu |-> env.mu, sigma |-> env.sigma]

\* The canonical keys of a list of team keys
CanonKeys(teams) == {CanonKey(teams[i]) : i \in 1..Len(teams)}

\* The canonical keys of the teams that the request of record l names: in the
\* records pushed, in the matches fetched, in the entries of the snapshot read,
\* in the two alliances of a prediction
NamedBy(l) ==
    CASE l.op = "push" ->
            UNION {CanonKeys(l.req.items[i].teams1) \cup CanonKeys(l.req.items[i].teams2) :
                      i \in {j \in 1..Len(l.req.items) : l.req.items[j].dict}}
      [] l.op = "update" ->
            IF l.status = 400 \/ FetchFailed(l.arg) THEN {}
            ELSE LET ms == Fetched(l.req, l.arg)
                 IN  UNION {CanonKeys(ms[i].red.team_keys) \cup CanonKeys(ms[i].blue.team_keys) :
                               i \in {j \in 1..Len(ms) : ms[j].dict}}
      [] l.op \in {"load", "recalculate"} ->
            LET es == l.req.payload.teams
            IN  {CanonKey(es[i].team_key.v) :
                    i \in {j \in 1..Len(es) : es[j].dict /\ ~IsNone(es[j].team_key)}}
      [] l.op = "predict_match" -> CanonKeys(l.req[1]) \cup CanonKeys(l.req[2])
      [] l.op = "predict_batch" ->
            UNION {CanonKeys(l.req.items[i].teams1) \cup CanonKeys(l.req.items[i].teams2) :
                      i \in {j \in 1..Len(l.req.items) : l.req.items[j].dict}}
      [] OTHER -> {}

LookupDone == last.op = "predict_team" /\ last.req # <<>>

\* The lookup answers found exactly when the canonical key is in the table, then
\* with the belief stored under it, and changes nothing
LookupIsGet ==
    LookupDone
        => /\ last.status = (IF CanonKey(last.req) \in DOMAIN last.pre.tr THEN 200 ELSE 404)
           /\ last.status = 200 => last.arg = last.pre.tr[CanonKey(last.req)]
           /\ TEAM_RATINGS = last.pre.tr

\* A request adds a key to the table only for a team that it names, and a
\* lookup names none
OnlyNamedKeysEnter ==
    \A k \in (DOMAIN TEAM_RATINGS') \ (DOMAIN TEAM_RATINGS) : CanonKey(k) \in NamedBy(last')

\* C11: the single-team lookup never creates. It answers found if and only if
\* the canonical key is in the table and leaves the table as it was; and a key
\* is in the table only when an earlier request named its team, so the lookup
\* of a team that no earlier request named answers not-found.
C11_LookupNeverCreates == []LookupIsGet /\ [][OnlyNamedKeysEnter]_vars

\* a team is looked up in another spelling than the table's key and found, in a
\* table that also lacks a team
C11_Witness ==
    /\ LookupDone
    /\ last.status = 200
    /\ last.req # CanonKey(last.req)
    /\ kC \notin DOMAIN TEAM_RATINGS

\* A rebuild that reached the replay: the fetches gave lists and none raised
Replayed ==
    /\ last.op = "update" /\ last.status # 400
    /\ last.arg.kind = "ok" /\ last.arg.list
    /\ last.req = ReqSeason => ~GatherRaises(last.arg.items)

\* C12: the table after a rebuild is the table that the same rebuild (same
\* environment, same fetched matches) ends with when run on an empty table,
\* whatever the table held before: two replays of one list end alike.
C12_ReplayDeterministic ==
    Replayed
        => LET again == update_ratings_fn(EmptyDict, last.pre.env, ENull, JNull,
                                          last.req, last.arg)
           IN  /\ TEAM_RATINGS = again.tr
               /\ last.status = again.status

\* a rebuild over a table that held a team the rebuild does not bring back
C12_Witness ==
    /\ Replayed
    /\ last.status = 200
    /\ TEAM_RATINGS # EmptyDict
    /\ \E k \in DOMAIN last.pre.tr : k \notin DOMAIN TEAM_RATINGS
    /\ \E k \in DOMAIN last.pre.tr :
          k \in DOMAIN TEAM_RATINGS /\ last.pre.tr[k] # TEAM_RATINGS[k]

\* The rank of a competition phase: practice, qualification, the elimination
\* rounds, the final; any other phase ranks last
PhaseRank(comp_level) ==
    CASE comp_level = "pr" -> 0
      [] comp_level = "qm" -> 1
      [] comp_level = "ef" -> 2
      [] comp_level = "qf" -> 3
      [] comp_level = "sf" -> 4
      [] comp_level = "f" -> 5
      [] OTHER -> 9

\* The composite key of a record: timestamp, phase rank, set number, match number
CompositeKey(m) ==
    <<SortKey(m), PhaseRank(m.comp_level), m.set_number, m.match_number>>

\* the lexicographic order of two keys of one length
RECURSIVE LexLess(_, _)
LexLess(a, b) ==
    /\ a # <<>>
    /\ \/ Head(a) < Head(b)
       \/ Head(a) = Head(b) /\ LexLess(Tail(a), Tail(b))

\* The valid records of a rebuild in the order in which the loop visits them
AppliedOrder(l) == SelectSeq(sort_matches(Fetched(l.req, l.arg)), TbaValid)

ReplayOfRecords ==
    /\ Replayed
    /\ \A i \in 1..Len(Fetched(last.req, last.arg)) : Fetched(last.req, last.arg)[i].dict

\* C13: a rebuild applies the valid records in ascending order of the composite
\* key: of two records applied, the one with the smaller key is applied first.
C13_ReplayInCompositeOrder ==
    ReplayOfRecords
        => \A i, j \in 1..Len(AppliedOrder(last)) :
              i < j => ~LexLess(CompositeKey(AppliedOrder(last)[j]),
                                CompositeKey(AppliedOrder(last)[i]))

\* The records of ms grouped by ascending ordering key, each group in the order
\* of ms
RECURSIVE ByKeys(_, _)
ByKeys(ms, K) ==
    IF K = {} THEN <<>>
    ELSE LET t == CHOOSE x \in K : \A y \in K : x <= y
         IN  SelectSeq(ms, LAMBDA m : SortKey(m) = t) \o ByKeys(ms, K \ {t})

InputOrderWithinKeys(ms) == ByKeys(ms, {SortKey(ms[i]) : i \in 1..Len(ms)})

\* C14: sequencing is stable and repeatable. The sequenced list holds the
\* records of equal or missing timestamp in their input order, sequencing it
\* again changes nothing, and the table after the rebuild is the one that the
\* replay in that order yields.
C14_SequencingStable ==
    ReplayOfRecords
        => LET ms == Fetched(last.req, last.arg)
               want == rebuild_loop(EmptyDict, last.pre.env, InputOrderWithinKeys(ms),
                                    last.req.event_key, last.req.year,
                                    last.pre.key, last.pre.year)
           IN  /\ sort_matches(ms) = InputOrderWithinKeys(ms)
               /\ sort_matches(sort_matches(ms)) = sort_matches(ms)
               /\ TEAM_RATINGS = want.tr

\* a rebuild of two different matches of one timestamp, both applied, where the
\* other order gives another table
C14_Witness ==
    /\ ReplayOfRecords
    /\ last.status = 200
    /\ LET ms == Fetched(last.req, last.arg)
       IN  /\ Len(ms) = 2
           /\ SortKey(ms[1]) = SortKey(ms[2])
           /\ TbaValid(ms[1]) /\ TbaValid(ms[2])
           /\ TEAM_RATINGS # rebuild_loop(EmptyDict, last.pre.env, <<ms[2], ms[1]>>,
                                          last.req.event_key, last.req.year,
                                          last.pre.key, last.pre.year).tr

\* The outcome of a record by its two scores, and the ranks that say it
Outcome(score1, score2) ==
    IF score1 > score2 THEN "first" ELSE IF score2 > score1 THEN "second" ELSE "draw"

OutcomeRanks(o) ==
    CASE o = "first" -> <<0, 1>>
      [] o = "second" -> <<1, 0>>
      [] o = "draw" -> <<0, 0>>

Scores(teams1, teams2, score1, score2) ==
    [teams1 |-> teams1, teams2 |-> teams2, score1 |-> score1, score2 |-> score2]

\* The table after the records of recs are applied one after the other, each
\* with the outcome of its scores
RECURSIVE ApplyClassified(_, _, _)
ApplyClassified(tr, e, recs) ==
    IF recs = <<>> THEN tr
    ELSE LET m == Head(recs)
             r == rate_and_store(tr, e, m.teams1, m.teams2,
                                 OutcomeRanks(Outcome(m.score1, m.score2)))
         IN  ApplyClassified(r.tr, e, Tail(recs))

PushOfValid ==
    /\ PushOfRecords
    /\ \A i \in 1..Len(last.req.items) : NotMalformed(last.req.items[i])

ReplayOfValid ==
    /\ ReplayOfRecords
    /\ \A i \in 1..Len(Fetched(last.req, last.arg)) : TbaValid(Fetched(last.req, last.arg)[i])

\* C15: a record is applied with the outcome of its two scores alone, a win of
\* the alliance that scored more or a draw on equal scores, by push and by
\* rebuild, whatever the draw probability of the environment: the request
\* succeeds and the table is the one these outcomes yield.
C15_OutcomeFromScoresOnly ==
    /\ PushOfValid
          => LET items == last.req.items
                 recs == [i \in 1..Len(items) |->
                             Scores(items[i].teams1, items[i].teams2,
                                    items[i].score1.v, items[i].score2.v)]
             IN  /\ last.status = 200
                 /\ TEAM_RATINGS = ApplyClassified(last.pre.tr, last.pre.env, recs)
    /\ ReplayOfValid
          => LET ms == sort_matches(Fetched(last.req, last.arg))
                 recs == [i \in 1..Len(ms) |->
                             Scores(ms[i].red.team_keys, ms[i].blue.team_keys,
                                    ms[i].red.score.v, ms[i].blue.score.v)]
             IN  /\ last.status = 200
                 /\ TEAM_RATINGS = ApplyClassified(EmptyDict, last.pre.env, recs)

\* a push with a record of equal scores, applied under draw probability 0
C15_Witness ==
    /\ PushOfValid
    /\ last.pre.env.draw_probability = 0
    /\ \E i \in 1..Len(last.req.items) :
          last.req.items[i].score1.v = last.req.items[i].score2.v
    /\ last.status = 200
    /\ TEAM_RATINGS # last.pre.tr

CanonList(teams) == [i \in 1..Len(teams) |-> CanonKey(teams[i])]

\* A push of valid records on a table whose keys are all canonical
PushOnCanonicalTable ==
    /\ PushOfValid
    /\ last.req.items # <<>>
    /\ \A k \in DOMAIN last.pre.tr : CanonKey(k) = k

\* C16: matches are applied one at a time, each from the beliefs that the
\* matches before it produced: the belief that the last record of a push stores
\* for a team is the one that results when every record of the batch starts
\* from the beliefs its predecessors left for its teams.
C16_NextMatchReadsUpdated ==
    PushOnCanonicalTable
        => LET items == last.req.items
               recs == [i \in 1..Len(items) |->
                           Scores(CanonList(items[i].teams1), CanonList(items[i].teams2),
                                  items[i].score1.v, items[i].score2.v)]
               want == ApplyClassified(last.pre.tr, last.pre.env, recs)
               m == items[Len(items)]
           IN  \A t \in {m.teams1[i] : i \in 1..Len(m.teams1)}
                            \cup {m.teams2[i] : i \in 1..Len(m.teams2)} :
                  /\ t \in DOMAIN TEAM_RATINGS
                  /\ TEAM_RATINGS[t] = want[CanonKey(t)]

\* The canonical keys of the teams of the record that a writer visits next
NextRecordTeams ==
    IF job.todo = <<>> THEN {}
    ELSE IF job.kind = "push"
         THEN CanonKeys(Head(job.todo).teams1) \cup CanonKeys(Head(job.todo).teams2)
    ELSE IF job.kind = "update"
         THEN CanonKeys(Head(job.todo).red.team_keys)
                 \cup CanonKeys(Head(job.todo).blue.team_keys)
    ELSE {}

\* A step in which a push or a rebuild visits one record
MatchStep == job.kind \in {"push", "update"} /\ job.todo # <<>> /\ job' # job

MatchStepFrame ==
    MatchStep
        => /\ \A k \in (DOMAIN TEAM_RATINGS) \cup (DOMAIN TEAM_RATINGS') :
                 CanonKey(k) \notin NextRecordTeams
                     => /\ k \in DOMAIN TEAM_RATINGS
                        /\ k \in DOMAIN TEAM_RATINGS'
                        /\ TEAM_RATINGS'[k] = TEAM_RATINGS[k]
           /\ env' = env
           /\ job.kind = "push"
                 => LAST_EVENT_KEY' = LAST_EVENT_KEY /\ LAST_YEAR' = LAST_YEAR

\* C17: the step that applies one match changes only the beliefs of the teams
\* of its two alliances: every other entry of the table stays as it is, and so
\* do the environment and, in a push, the session context.
C17_MatchTouchesOnlyItsTeams == [][MatchStepFrame]_vars

\* a push has applied its records and an entry of another team is as before
C17_Witness ==
    /\ job.kind = "push" /\ job.todo = <<>>
    /\ TEAM_RATINGS = job.final
    /\ \E k \in DOMAIN job.pre :
          k \in DOMAIN TEAM_RATINGS /\ TEAM_RATINGS[k] = job.pre[k]
    /\ \E k \in DOMAIN job.pre :
          k \in DOMAIN TEAM_RATINGS /\ TEAM_RATINGS[k] # job.pre[k]

PredictDone == last.op \in {"predict_match", "predict_batch"}

\* The canonical keys of the teams of the pairs that a prediction request
\* answered with probabilities
PredictedTeams(l) ==
    IF l.op = "predict_match" THEN CanonKeys(l.req[1]) \cup CanonKeys(l.req[2])
    ELSE UNION {CanonKeys(l.req.items[i].teams1) \cup CanonKeys(l.req.items[i].teams2) :
                   i \in {j \in 1..Len(l.req.items) :
                             ~Falsy(l.req.items[j].teams1) /\ ~Falsy(l.req.items[j].teams2)}}

\* C18: predict_match and predict_batch are reads. They change no belief the
\* table holds, nor the environment, nor the session context; what they add is
\* a newly created belief for a team they name that had no entry, and after a
\* request that succeeds every team of a predicted pair has an entry.
C18_PredictOnlyAddsPriors ==
    PredictDone
        => /\ env = last.pre.env
           /\ LAST_EVENT_KEY = last.pre.key
           /\ LAST_YEAR = last.pre.year
           /\ \A k \in DOMAIN last.pre.tr :
                 k \in DOMAIN TEAM_RATINGS /\ TEAM_RATINGS[k] = last.pre.tr[k]
           /\ \A k \in (DOMAIN TEAM_RATINGS) \ (DOMAIN last.pre.tr) :
                 /\ k \in NamedBy(last)
                 /\ TEAM_RATINGS[k] = Rating(DEFAULT_MU, DEFAULT_SIGMA)
           /\ last.status = 200 => PredictedTeams(last) \subseteq DOMAIN TEAM_RATINGS

\* a prediction names a team whose belief is no longer the prior, and a team
\* without an entry
C18_Witness ==
    /\ PredictDone
    /\ last.status = 200
    /\ \E k \in PredictedTeams(last) :
          k \in DOMAIN last.pre.tr /\ last.pre.tr[k] # Rating(DEFAULT_MU, DEFAULT_SIGMA)
    /\ \E k \in PredictedTeams(last) : k \notin DOMAIN last.pre.tr

\* The probabilities that the last request returned
PredictionsOf(l) ==
    IF l.status # 200 THEN {}
    ELSE IF l.op = "predict_match" THEN {l.arg}
    ELSE IF l.op = "predict_batch"
         THEN {l.arg[i].probs : i \in {j \in 1..Len(l.arg) : ~l.arg[j].error}}
    ELSE {}

\* Beliefs without variance under an environment without performance variance:
\* the inputs for which the denominator of line 322 is 0
Certain(mu) == [mu |-> mu, sigma |-> 0]

DegenerateIsHalf ==
    \A m1, m2 \in {10, 30} :
        win_probs([k \in {kA, kB} |-> IF k = kA THEN Certain(m1) ELSE Certain(m2)],
                  TrueSkill(DEFAULT_MU, DEFAULT_SIGMA, 0, 0, 0), <<kA>>, <<kB>>)
            = [team1_win_prob |-> Half, team2_win_prob |-> Half]

\* C19: a prediction for two non-empty alliances is answered, and its two
\* probabilities sum to 1; where the denominator is 0 the answer is one half
\* for each side.
C19_ProbabilitiesSumToOne ==
    /\ (last.op = "predict_match" /\ ~Falsy(last.req[1]) /\ ~Falsy(last.req[2]))
           => last.status = 200
    /\ \A p \in PredictionsOf(last) :
          /\ p.team1_win_prob \in 0..One
          /\ p.team1_win_prob + p.team2_win_prob = One
    /\ DegenerateIsHalf

\* a prediction between two teams of different beliefs
C19_Witness ==
    /\ last.op = "predict_match" /\ last.status = 200
    /\ last.arg.team1_win_prob > Half
    /\ last.arg.team1_win_prob < One
    /\ last.pre.tr # EmptyDict

\* The requests that reset the table: a rebuild and a snapshot import, by
\* load_data or by recalculate from the file
IsReset(l) == l.op \in {"update", "load"} \/ (l.op = "recalculate" /\ l.arg)

KeysOnlyGrow ==
    ~IsReset(last') => (DOMAIN TEAM_RATINGS) \subseteq (DOMAIN TEAM_RATINGS')

\* C20: only a rebuild or a snapshot import removes a key from the table: a
\* push, a prediction, a lookup, the leaderboard and the export leave every key
\* in it, whether they succeed or fail.
C20_KeysRemovedOnlyByReset == [][KeysOnlyGrow]_vars

\* a push on a table that holds teams has added keys and dropped none
C20_Witness ==
    /\ last.op = "push"
    /\ last.pre.tr # EmptyDict
    /\ (DOMAIN last.pre.tr) \subseteq (DOMAIN TEAM_RATINGS)
    /\ (DOMAIN TEAM_RATINGS) # (DOMAIN last.pre.tr)
    /\ \E k \in DOMAIN last.pre.tr : TEAM_RATINGS[k] # last.pre.tr[k]

\* C21: a push that is answered with an error has mutated nothing: the table is
\* the table before the request, also when well-formed records precede the
\* offending element.
C21_FailedPushMutatesNothing ==
    (last.op = "push" /\ last.status # 200) => TEAM_RATINGS = last.pre.tr

\* A step of the apply phase of a rebuild: the clear, or the visit of a match
ApplyStep == job'.kind = "update" \/ (job.kind = "update" /\ job' # job)

\* Every fetch of the rebuild in progress has been made and gave a 200 list
AllFetchesSucceeded ==
    /\ job.kind = "update" \/ (job.kind = "fetch" /\ job.todo = <<>>)
    /\ ~job.failed

GatherThenApply ==
    /\ (job.kind = "fetch" /\ ~ApplyStep) => TEAM_RATINGS' = TEAM_RATINGS
    /\ ApplyStep => AllFetchesSucceeded

\* C22: a rebuild gathers, then applies. While its fetches are being made the
\* table is not modified, and the clear and the replay take place only when
\* every fetch of the rebuild has completed successfully.
C22_GatherThenApply == [][GatherThenApply]_vars

\* C23: a save is safe against a crash. At every point of a save, and after a
\* crash in the middle of it, the file at the snapshot path holds a complete
\* snapshot (or is absent, when none was saved before): never a truncated or
\* partly written document.
C23_SnapshotFileComplete == file.kind \in {"missing", "json"}

\* A request that set out to read a snapshot file: load_data, and recalculate
\* from the file
ReadSnapshot == last.op = "load" \/ (last.op = "recalculate" /\ last.arg)

StateAsBefore ==
    /\ TEAM_RATINGS = last.pre.tr
    /\ env = last.pre.env
    /\ LAST_EVENT_KEY = last.pre.key
    /\ LAST_YEAR = last.pre.year

\* C24: reading a snapshot tells an absent file from one that cannot be parsed:
\* the first is answered not-found (404), the second with a parse error (500),
\* and in both cases the table, the environment and the session context are as
\* before the request.
C24_MissingAndCorruptDistinct ==
    /\ (ReadSnapshot /\ last.req.kind = "missing") => (last.status = 404 /\ StateAsBefore)
    /\ (ReadSnapshot /\ last.req.kind = "partial") => (last.status = 500 /\ StateAsBefore)

\* a file that is no JSON document is loaded, with the environment asked from
\* it, into a table that holds beliefs
C24_Witness ==
    /\ last.op = "load" /\ last.req.kind = "partial" /\ last.arg
    /\ last.pre.tr # EmptyDict
    /\ last.pre.key # ENull

\* An import that takes its environment from the snapshot: load_data with
\* use_env_from_json set, of a JSON document
ImportWithEnv == last.op = "load" /\ last.arg /\ last.req.kind = "json"

\* An import that read a JSON document, by load_data or by recalculate
AnyImportDone == ReadSnapshot /\ last.req.kind = "json"

\* C25: the environment changes only through an import whose flag is set. Every
\* other request, an import with the flag unset included, leaves its five
\* parameters as they were; with the flag set the environment becomes the one
\* embedded in the snapshot; and with or without the flag every belief imported
\* has the mu and the sigma (up to its sign) of its entry in the snapshot.
C25_EnvChangesOnlyByFlaggedImport ==
    /\ (last.op # "init" /\ ~ImportWithEnv) => env = last.pre.env
    /\ (ImportWithEnv /\ last.req.payload.env.kind = "ok")
          => env = TrueSkill(last.req.payload.env.mu, last.req.payload.env.sigma,
                             last.req.payload.env.beta, last.req.payload.env.tau,
                             last.req.payload.env.draw_probability)
    /\ AnyImportDone
          => \A k \in DOMAIN TEAM_RATINGS :
                \E i \in 1..Len(last.req.payload.teams) :
                   LET entry == last.req.payload.teams[i]
                   IN  /\ entry.dict /\ ~IsNone(entry.team_key)
                       /\ CanonKey(entry.team_key.v) = k
                       /\ entry.mu = JNum(TEAM_RATINGS[k].mu)
                       /\ entry.sigma \in {JNum(TEAM_RATINGS[k].sigma),
                                           JNum(-TEAM_RATINGS[k].sigma)}

\* an import with the flag set has replaced the environment by another one and
\* installed beliefs
C25_Witness ==
    /\ ImportWithEnv
    /\ last.status = 200
    /\ env # last.pre.env
    /\ env.sigma # DEFAULT_SIGMA
    /\ TEAM_RATINGS # EmptyDict

\* C26: the leaderboard lists every belief of the table exactly once, in
\* descending order of mu - 3 sigma, and its team count is the number of entries
\* of the table.
C26_LeaderboardSortedComplete ==
    last.op = "leaderboard"
        => /\ \A k \in DOMAIN last.pre.tr :
                 Cardinality({i \in 1..Len(last.arg) :
                                 last.arg[i] = serialize_team_entry(k, last.pre.tr[k])}) = 1
           /\ Len(last.arg) = Cardinality(DOMAIN last.pre.tr)
           /\ \A i, j \in 1..Len(last.arg) :
                 i < j => last.arg[i].mu.v - 3 * last.arg[i].sigma.v
                             >= last.arg[j].mu.v - 3 * last.arg[j].sigma.v
           /\ last.n = Cardinality(DOMAIN TEAM_RATINGS)
           /\ TEAM_RATINGS = last.pre.tr

\* the leaderboard of a table of three teams or more whose order is not the
\* order of their keys nor that of their means
C26_Witness ==
    /\ last.op = "leaderboard"
    /\ last.n >= 3
    /\ \E i, j \in 1..Len(last.arg) :
          /\ i < j
          /\ StrLess(last.arg[j].team_key.v, last.arg[i].team_key.v)
    /\ \E i, j \in 1..Len(last.arg) :
          /\ i < j
          /\ last.arg[i].mu.v < last.arg[j].mu.v

BeliefBefore(tr, k) ==
    IF k \in DOMAIN tr THEN tr[k] ELSE Rating(DEFAULT_MU, DEFAULT_SIGMA)

\* A push of one decisive record between two teams, named by their canonical
\* keys, whose beliefs are identical
DecisiveBetweenEquals ==
    /\ PushOfValid
    /\ Len(last.req.items) = 1
    /\ LET m == last.req.items[1]
       IN  /\ Len(m.teams1) = 1 /\ Len(m.teams2) = 1
           /\ CanonKey(m.teams1[1]) = m.teams1[1]
           /\ CanonKey(m.teams2[1]) = m.teams2[1]
           /\ m.teams1[1] # m.teams2[1]
           /\ m.score1.v # m.score2.v
           /\ BeliefBefore(last.pre.tr, m.teams1[1]) = BeliefBefore(last.pre.tr, m.teams2[1])

\* The deviation of belief b once the dynamics noise of environment e is added
\* to its variance, which is what the update corrects
NoisyDeviation(b, e) == ISqrt(b.sigma * b.sigma + e.tau * e.tau)

OneRecordApplied ==
    /\ PushOnCanonicalTable
    /\ Len(last.req.items) = 1
    /\ last.status = 200
    /\ LET m == last.req.items[1]
       IN  \A t \in {m.teams1[i] : i \in 1..Len(m.teams1)}
                        \cup {m.teams2[i] : i \in 1..Len(m.teams2)} : CanonKey(t) # <<>>

\* C29: once a record naming a team under any spelling has been applied, the
\* lookup of the team under that spelling answers with the belief that the
\* update produced for it.
C29_LookupReadsUpdated ==
    OneRecordApplied
        => LET m == last.req.items[1]
               want == ApplyClassified(last.pre.tr, last.pre.env,
                          <<Scores(CanonList(m.teams1), CanonList(m.teams2),
                                   m.score1.v, m.score2.v)>>)
           IN  \A t \in {m.teams1[i] : i \in 1..Len(m.teams1)}
                            \cup {m.teams2[i] : i \in 1..Len(m.teams2)} :
                  LET r == predict_team_fn(TEAM_RATINGS, t)
                  IN  /\ r.status = 200
                      /\ r.rating = want[CanonKey(t)]

\* C30: after a rebuild answered with success the session context names the
\* event or the season of the request, and so does an export taken then.
C30_ContextNamesRebuild ==
    (last.op = "update" /\ last.status = 200)
        => LET p == build_export_payload(TEAM_RATINGS, env, LAST_EVENT_KEY, LAST_YEAR)
           IN  /\ LAST_EVENT_KEY = last.req.event_key
               /\ LAST_YEAR = last.req.year
               /\ p.event_key = last.req.event_key
               /\ p.year = last.req.year

====
